---- MODULE Spec2Model ----
(***************************************************************************)
(* Cycle-level model of the Tomasulo pipeline simulator of tomasulo.c.     *)
(* One action per pipeline stage function, run in the order of the cycle   *)
(* loop of runTomasulo; pc names the stage that runs next.                 *)
(***************************************************************************)
EXTENDS Integers, Sequences, FiniteSets, TLC

(* ---------------- parameters of the algorithm (tomasulo.c 26-34) -------- *)
INSTR_QUEUE_SIZE == 10
RESERV_INT_SIZE == 4
RESERV_FP_SIZE == 2
FU_INT_SIZE == 2
FU_FP_SIZE == 1
FU_INT_LATENCY == 4
FU_FP_LATENCY == 9

(* ---------------- bounds of the model ----------------------------------- *)
\* longest trace built from arbitrary instructions
MaxInstr == 3
\* longest trace built from two blocks of one repeated instruction each
MaxLong == 14
\* architectural registers 1..NumRegs (register 0 is the "none" operand)
NumRegs == 2
\* records read past the end of the trace by one call of fetch
MaxOOB == 2
\* the cycle loop is followed up to this cycle number
MaxCycle == 52

(* ---------------- instruction records ----------------------------------- *)
\* a null instruction pointer; instructions are named by their trace position
NULL == 0
\* the "none" register operand
DNA == 0

Regs == 0..NumRegs

Arr2(a, b) == [k \in 0..1 |-> IF k = 0 THEN a ELSE b]
Arr3(a, b, c) == [k \in 0..2 |-> IF k = 0 THEN a ELSE IF k = 1 THEN b ELSE c]

\* operation classes, as told apart by the MD_OP_FLAGS predicates
IS_CTRL(op) == op = "ctrl"
IS_FCOMP(op) == op = "fcomp"
IS_ICOMP(op) == op = "icomp"
IS_LOAD(op) == op = "load"
IS_STORE(op) == op = "store"
IS_TRAP(op) == op = "trap"

\* the integer-unit test without the stores
USES_INT_FU_NoStore(op) == IS_ICOMP(op) \/ IS_LOAD(op)
\* lines 60-61
USES_INT_FU(op) == IS_ICOMP(op) \/ IS_LOAD(op) \/ IS_STORE(op)
USES_FP_FU(op) == IS_FCOMP(op)

Tpl(op, i0, i1, i2, o0, o1) == [op |-> op, r_in |-> Arr3(i0, i1, i2), r_out |-> Arr2(o0, o1)]

\* the instructions a trace is built from; a store and a control instruction
\* name no destination register that the pipeline tracks
Templates ==
  { Tpl("icomp", 0, 0, 0, 1, 0),
    Tpl("icomp", 1, 2, 1, 2, 0),
    Tpl("load",  1, 0, 0, 1, 2),
    Tpl("store", 1, 2, 0, 0, 0),
    Tpl("fcomp", 1, 0, 0, 2, 0),
    Tpl("ctrl",  1, 0, 0, 0, 0),
    Tpl("trap",  0, 0, 0, 0, 0),
    Tpl("none",  0, 0, 0, 0, 0) }

\* instructions of the long block traces
HeadTemplates == { Tpl("fcomp", 0, 0, 0, 2, 0), Tpl("icomp", 0, 0, 0, 1, 0) }
TailTemplates == { Tpl("icomp", 0, 0, 0, 1, 0), Tpl("store", 1, 0, 0, 0, 0),
                   Tpl("ctrl",  1, 0, 0, 0, 0) }

\* what a read past the end of the trace may find: one record of each class
JunkTemplates ==
  { Tpl("icomp", 0, 0, 0, 1, 0), Tpl("store", 1, 2, 0, 0, 0),
    Tpl("fcomp", 0, 0, 0, 2, 0), Tpl("ctrl",  1, 0, 0, 0, 0),
    Tpl("trap",  0, 0, 0, 0, 0), Tpl("none",  0, 0, 0, 0, 0) }

Rep(t, n) == [k \in 1..n |-> t]

ShortTraces == UNION { [1..n -> Templates] : n \in 0..MaxInstr }
LongTraces ==
  { Rep(a, i) \o Rep(b, n - i) : a \in HeadTemplates, b \in TailTemplates,
                                 i \in 0..(RESERV_FP_SIZE + 2),
                                 n \in (MaxLong - 2)..MaxLong }
Traces == ShortTraces \cup LongTraces

\* instruction_t as the trace provider hands it over: no stage cycle recorded,
\* no producer awaited
MkInstr(t, idx) ==
  [index |-> idx, op |-> t.op, r_in |-> t.r_in, r_out |-> t.r_out,
   Q |-> Arr3(NULL, NULL, NULL),
   tom_dispatch_cycle |-> 0, tom_issue_cycle |-> 0,
   tom_execute_cycle |-> 0, tom_cdb_cycle |-> 0]

MkTable(tr, from) == [k \in 1..Len(tr) |-> MkInstr(tr[k], from + k)]

VARIABLES
  table,            \* the trace's instruction records, get_instr(trace, i) = table[i]
  sim_num_insn,     \* the number of instructions in the trace
  doneCount,
  instr_queue, instr_queue_size, ifq_head, ifq_tail,
  reservINT, reservFP, fuINT, fuFP,
  commonDataBus,
  map_table,
  fetch_index,
  cycle,            \* the local of runTomasulo
  pc,               \* the stage the cycle loop runs next
  counted,          \* history: how often each instruction was added to doneCount
  maxReq,           \* history: the highest index passed to get_instr
  iterations        \* history: the loop iterations run to their end

vars == <<table, sim_num_insn, doneCount, instr_queue, instr_queue_size, ifq_head,
          ifq_tail, reservINT, reservFP, fuINT, fuFP, commonDataBus, map_table,
          fetch_index, cycle, pc, counted, maxReq, iterations>>

Init ==
  /\ \E tr \in Traces : /\ table = MkTable(tr, 0)
                        /\ sim_num_insn = Len(tr)
                        /\ counted = [k \in 1..Len(tr) |-> 0]
  /\ doneCount = 0
  /\ instr_queue = [i \in 0..(INSTR_QUEUE_SIZE - 1) |-> NULL]
  /\ instr_queue_size = 0
  /\ ifq_head = 0
  /\ ifq_tail = 0
  /\ reservINT = [i \in 0..(RESERV_INT_SIZE - 1) |-> NULL]
  /\ reservFP = [i \in 0..(RESERV_FP_SIZE - 1) |-> NULL]
  /\ fuINT = [i \in 0..(FU_INT_SIZE - 1) |-> NULL]
  /\ fuFP = [i \in 0..(FU_FP_SIZE - 1) |-> NULL]
  /\ commonDataBus = NULL
  /\ map_table = [r \in Regs |-> NULL]
  /\ fetch_index = 0
  /\ cycle = 1
  /\ pc = "retire"
  /\ maxReq = 0
  /\ iterations = 0

(* ---------------- runTomasulo: the order of the stages -------------------- *)
\* the stages with dispatch_To_issue called before issue_To_execute
StageAfter_DispatchFirst(stage) ==
  CASE stage = "retire" -> "cdb"
    [] stage = "cdb" -> "dispatch"
    [] stage = "dispatch" -> "issue"
    [] stage = "issue" -> "fetch"
    [] stage = "fetch" -> "check"

\* lines 447-451: the stage called after stage in one iteration of the loop;
\* "check" is the end of the iteration, lines 452-455
StageAfter(stage) ==
  CASE stage = "retire" -> "cdb"
    [] stage = "cdb" -> "issue"
    [] stage = "issue" -> "dispatch"
    [] stage = "dispatch" -> "fetch"
    [] stage = "fetch" -> "check"

(* ---------------- CDB_To_retire ------------------------------------------ *)
\* ClearMap without the test that the entry still names the bus instruction
ClearMap_Unconditional(map, tbl, b) ==
  [r \in Regs |-> IF r = tbl[b].r_out[0] \/ r = tbl[b].r_out[1] THEN NULL ELSE map[r]]

\* lines 137-141: the map entries of the bus instruction's destinations
ClearMap(map, tbl, b) ==
  [r \in Regs |-> IF (r = tbl[b].r_out[0] \/ r = tbl[b].r_out[1]) /\ map[r] = b
                  THEN NULL ELSE map[r]]

InRS(rsI, rsF, x) ==
  \/ \E i \in 0..(RESERV_INT_SIZE - 1) : rsI[i] = x
  \/ \E i \in 0..(RESERV_FP_SIZE - 1) : rsF[i] = x

\* ClearQ without the loop over the floating-point stations
ClearQ_IntOnly(tbl, rsI, rsF, b) ==
  [k \in 1..Len(tbl) |->
     IF \E i \in 0..(RESERV_INT_SIZE - 1) : rsI[i] = k
     THEN [tbl[k] EXCEPT !.Q = [j \in 0..2 |-> IF tbl[k].Q[j] = b THEN NULL ELSE tbl[k].Q[j]]]
     ELSE tbl[k]]

\* ClearQ looking at the first await-slot only
ClearQ_FirstSlotOnly(tbl, rsI, rsF, b) ==
  [k \in 1..Len(tbl) |->
     IF InRS(rsI, rsF, k) /\ tbl[k].Q[0] = b
     THEN [tbl[k] EXCEPT !.Q[0] = NULL]
     ELSE tbl[k]]

\* lines 142-155: the await-slots of the reservation-station residents
ClearQ(tbl, rsI, rsF, b) ==
  [k \in 1..Len(tbl) |->
     IF InRS(rsI, rsF, k)
     THEN [tbl[k] EXCEPT !.Q = [j \in 0..2 |-> IF tbl[k].Q[j] # NULL /\ tbl[k].Q[j] = b
                                               THEN NULL ELSE tbl[k].Q[j]]]
     ELSE tbl[k]]

Bump(cnt, x) == [cnt EXCEPT ![x] = @ + 1]

CDB_To_retire ==
  /\ pc = "retire"
  /\ pc' = StageAfter(pc)
  /\ IF commonDataBus # NULL
     THEN /\ map_table' = ClearMap(map_table, table, commonDataBus)
          /\ table' = ClearQ(table, reservINT, reservFP, commonDataBus)
          /\ commonDataBus' = NULL
          /\ doneCount' = doneCount + 1
          /\ counted' = Bump(counted, commonDataBus)
     ELSE UNCHANGED <<map_table, table, commonDataBus, doneCount, counted>>
  /\ UNCHANGED <<sim_num_insn, instr_queue, instr_queue_size, ifq_head, ifq_tail,
                 reservINT, reservFP, fuINT, fuFP, fetch_index, cycle, maxReq, iterations>>

(* ---------------- free_stations ------------------------------------------ *)
\* the first slot of arr[0..n-1] holding x is emptied (the loop breaks there)
FreeFirst(arr, n, x) ==
  [i \in 0..(n - 1) |->
     IF arr[i] = x /\ \A h \in 0..(i - 1) : arr[h] # x THEN NULL ELSE arr[i]]

\* free_stations emptying the unit but not the reservation station
free_stations_KeepsStation(st, instr) ==
  IF USES_INT_FU(table[instr].op)
  THEN [st EXCEPT !.fuINT = FreeFirst(st.fuINT, FU_INT_SIZE, instr)]
  ELSE IF USES_FP_FU(table[instr].op)
  THEN [st EXCEPT !.fuFP = FreeFirst(st.fuFP, FU_FP_SIZE, instr)]
  ELSE [st EXCEPT !.failed = TRUE]

\* st holds the arrays the stage works on; failed stands for assert(false)
free_stations(st, instr) ==
  IF USES_INT_FU(table[instr].op)
  THEN [st EXCEPT !.fuINT = FreeFirst(st.fuINT, FU_INT_SIZE, instr),
                  !.reservINT = FreeFirst(st.reservINT, RESERV_INT_SIZE, instr)]
  ELSE IF USES_FP_FU(table[instr].op)
  THEN [st EXCEPT !.fuFP = FreeFirst(st.fuFP, FU_FP_SIZE, instr),
                  !.reservFP = FreeFirst(st.reservFP, RESERV_FP_SIZE, instr)]
  ELSE [st EXCEPT !.failed = TRUE]

(* ---------------- execute_To_CDB ----------------------------------------- *)
\* the latency test passing one cycle early
LatencyOver_Early(instr, latency) == cycle + 1 >= table[instr].tom_execute_cycle + latency

\* the latency test with > for >=
LatencyOver_Strict(instr, latency) == cycle > table[instr].tom_execute_cycle + latency

\* the latency test of lines 209 and 220
LatencyOver(instr, latency) == cycle >= table[instr].tom_execute_cycle + latency

\* the arbitration test with the comparison turned around
Older_Reversed(instr, oldest) == oldest = -1 \/ table[instr].index > oldest

\* the arbitration test of lines 214 and 221
Older(instr, oldest) == oldest = -1 \/ table[instr].index < oldest

\* lines 208-219: the loop over the integer functional units, from unit i on
RECURSIVE ScanFuINT(_, _)
ScanFuINT(i, st) ==
  IF i = FU_INT_SIZE THEN st
  ELSE LET f == st.fuINT[i] IN
       IF f # NULL /\ LatencyOver(f, FU_INT_LATENCY)
       THEN IF IS_STORE(table[f].op)
            THEN ScanFuINT(i + 1, [free_stations(st, f) EXCEPT
                                     !.doneCount = @ + 1, !.counted = Bump(@, f)])
            ELSE IF Older(f, st.oldest)
            THEN ScanFuINT(i + 1, [st EXCEPT !.oldest = table[f].index, !.oldest_instr = f])
            ELSE ScanFuINT(i + 1, st)
       ELSE ScanFuINT(i + 1, st)

\* lines 220-225: the floating-point functional unit
ScanFuFP(st) ==
  LET f == st.fuFP[0] IN
  IF f # NULL /\ LatencyOver(f, FU_FP_LATENCY) /\ Older(f, st.oldest)
  THEN [st EXCEPT !.oldest = table[f].index, !.oldest_instr = f]
  ELSE st

\* lines 205-225: the instruction that wins the bus, NULL if none does
Arbitrate(st) == ScanFuFP(ScanFuINT(0, st))

execute_To_CDB ==
  /\ pc = "cdb"
  /\ LET st0 == [fuINT |-> fuINT, fuFP |-> fuFP, reservINT |-> reservINT,
                 reservFP |-> reservFP, doneCount |-> doneCount, counted |-> counted,
                 oldest |-> -1, oldest_instr |-> NULL, failed |-> FALSE]
         st1 == Arbitrate(st0)
         w == st1.oldest_instr
         st2 == IF w # NULL THEN free_stations(st1, w) ELSE st1
     IN /\ fuINT' = st2.fuINT
        /\ fuFP' = st2.fuFP
        /\ reservINT' = st2.reservINT
        /\ reservFP' = st2.reservFP
        /\ doneCount' = st2.doneCount
        /\ counted' = st2.counted
        /\ table' = IF w # NULL THEN [table EXCEPT ![w].tom_cdb_cycle = cycle] ELSE table
        /\ commonDataBus' = IF w # NULL /\ ~st2.failed THEN w ELSE commonDataBus
        /\ pc' = IF st2.failed THEN "abort" ELSE StageAfter(pc)
  /\ UNCHANGED <<sim_num_insn, instr_queue, instr_queue_size, ifq_head, ifq_tail,
                 map_table, fetch_index, cycle, maxReq, iterations>>

(* ---------------- issue_To_execute --------------------------------------- *)
\* the readiness test that looks at Q[0] and Q[2] only
Ready_ForgetsSlot(tbl, x) ==
  /\ x # NULL
  /\ tbl[x].tom_execute_cycle = 0
  /\ tbl[x].Q[0] = NULL /\ tbl[x].Q[2] = NULL

\* lines 256 and 281: resident, not started, no producer awaited
Ready(tbl, x) ==
  /\ x # NULL
  /\ tbl[x].tom_execute_cycle = 0
  /\ tbl[x].Q[0] = NULL /\ tbl[x].Q[1] = NULL /\ tbl[x].Q[2] = NULL

\* the integer comparison turned round
BetterINT_Reversed(tbl, x, y) == tbl[x].index > tbl[y].index

\* line 261: a later integer entry replaces the choice
BetterINT(tbl, x, y) == tbl[x].index < tbl[y].index

\* the floating-point comparison turned round
BetterFP_Reversed(tbl, x, y) == tbl[x].tom_dispatch_cycle >= tbl[y].tom_dispatch_cycle

\* line 286: a later floating-point entry replaces the choice
BetterFP(tbl, x, y) == tbl[x].tom_dispatch_cycle <= tbl[y].tom_dispatch_cycle

\* lines 254-266: the scan of the integer stations from slot j on; best is
\* oldest_rs_int, -1 while found is false
RECURSIVE SelectINT(_, _, _, _)
SelectINT(tbl, rs, j, best) ==
  IF j = RESERV_INT_SIZE THEN best
  ELSE IF Ready(tbl, rs[j])
       THEN IF best = -1 THEN SelectINT(tbl, rs, j + 1, j)
            ELSE IF BetterINT(tbl, rs[j], rs[best]) THEN SelectINT(tbl, rs, j + 1, j)
            ELSE SelectINT(tbl, rs, j + 1, best)
       ELSE SelectINT(tbl, rs, j + 1, best)

\* lines 279-291
RECURSIVE SelectFP(_, _, _, _)
SelectFP(tbl, rs, j, best) ==
  IF j = RESERV_FP_SIZE THEN best
  ELSE IF Ready(tbl, rs[j])
       THEN IF best = -1 THEN SelectFP(tbl, rs, j + 1, j)
            ELSE IF BetterFP(tbl, rs[j], rs[best]) THEN SelectFP(tbl, rs, j + 1, j)
            ELSE SelectFP(tbl, rs, j + 1, best)
       ELSE SelectFP(tbl, rs, j + 1, best)

\* the test for a free unit answering yes for every unit
UnitFree_Always(fu, i) == TRUE

\* lines 249 and 274: unit i takes a new instruction only when it is empty
UnitFree(fu, i) == fu[i] = NULL

\* lines 248-272: the loop over the integer units from unit i on;
\* s = [table, fu]
RECURSIVE IssueINT(_, _)
IssueINT(i, s) ==
  IF i = FU_INT_SIZE THEN s
  ELSE IF UnitFree(s.fu, i)
       THEN LET b == SelectINT(s.table, reservINT, 0, -1) IN
            IF b # -1
            THEN IssueINT(i + 1, [table |-> [s.table EXCEPT ![reservINT[b]].tom_execute_cycle = cycle],
                                  fu |-> [s.fu EXCEPT ![i] = reservINT[b]]])
            ELSE IssueINT(i + 1, s)
       ELSE IssueINT(i + 1, s)

\* lines 273-297
RECURSIVE IssueFP(_, _)
IssueFP(i, s) ==
  IF i = FU_FP_SIZE THEN s
  ELSE IF UnitFree(s.fu, i)
       THEN LET b == SelectFP(s.table, reservFP, 0, -1) IN
            IF b # -1
            THEN IssueFP(i + 1, [table |-> [s.table EXCEPT ![reservFP[b]].tom_execute_cycle = cycle],
                                 fu |-> [s.fu EXCEPT ![i] = reservFP[b]]])
            ELSE IssueFP(i + 1, s)
       ELSE IssueFP(i + 1, s)

issue_To_execute ==
  /\ pc = "issue"
  /\ pc' = StageAfter(pc)
  /\ LET s1 == IssueINT(0, [table |-> table, fu |-> fuINT])
         s2 == IssueFP(0, [table |-> s1.table, fu |-> fuFP])
     IN /\ fuINT' = s1.fu
        /\ fuFP' = s2.fu
        /\ table' = s2.table
  /\ UNCHANGED <<sim_num_insn, doneCount, instr_queue, instr_queue_size, ifq_head, ifq_tail,
                 reservINT, reservFP, commonDataBus, map_table, fetch_index, cycle,
                 counted, maxReq, iterations>>

(* ---------------- map_operands -------------------------------------------- *)
\* lines 301-305: the await-slots of instr, read from the producer map
AwaitSlots(tbl, map, instr) ==
  [j \in 0..2 |-> IF tbl[instr].r_in[j] # DNA THEN map[tbl[instr].r_in[j]]
                  ELSE tbl[instr].Q[j]]

\* lines 306-310: instr becomes the producer of its destinations
RecordProducer(tbl, map, instr) ==
  [r \in Regs |-> IF r # DNA /\ (r = tbl[instr].r_out[0] \/ r = tbl[instr].r_out[1])
                  THEN instr ELSE map[r]]

(* ---------------- dispatch_To_issue --------------------------------------- *)
\* the search for a free slot settling for slot 0 when every slot is taken
FirstFree_Wraps(arr, n) ==
  IF \E i \in 0..(n - 1) : arr[i] = NULL
  THEN CHOOSE i \in 0..(n - 1) : arr[i] = NULL /\ \A h \in 0..(i - 1) : arr[h] # NULL
  ELSE 0

\* the slot the loops of lines 331 and 343 stop at, -1 if every slot is taken
FirstFree(arr, n) ==
  IF \E i \in 0..(n - 1) : arr[i] = NULL
  THEN CHOOSE i \in 0..(n - 1) : arr[i] = NULL /\ \A h \in 0..(i - 1) : arr[h] # NULL
  ELSE -1

\* lines 333-337 and 345-349, but for the station itself
Admit(head_instr) ==
  /\ table' = [table EXCEPT ![head_instr].tom_issue_cycle = cycle,
                            ![head_instr].Q = AwaitSlots(table, map_table, head_instr)]
  /\ map_table' = RecordProducer(table, map_table, head_instr)
  /\ ifq_head' = (ifq_head + 1) % INSTR_QUEUE_SIZE
  /\ instr_queue_size' = instr_queue_size - 1

dispatch_To_issue ==
  /\ pc = "dispatch"
  /\ IF instr_queue_size > 0
     THEN LET head_instr == instr_queue[ifq_head]
              op == table[head_instr].op
          IN IF IS_CTRL(op)
             THEN /\ ifq_head' = (ifq_head + 1) % INSTR_QUEUE_SIZE
                  /\ instr_queue_size' = instr_queue_size - 1
                  /\ doneCount' = doneCount + 1
                  /\ counted' = Bump(counted, head_instr)
                  /\ pc' = StageAfter(pc)
                  /\ UNCHANGED <<table, map_table, reservINT, reservFP>>
             ELSE IF USES_FP_FU(op)
             THEN LET i == FirstFree(reservFP, RESERV_FP_SIZE) IN
                  /\ IF i # -1
                     THEN /\ reservFP' = [reservFP EXCEPT ![i] = head_instr]
                          /\ Admit(head_instr)
                     ELSE UNCHANGED <<reservFP, table, map_table, ifq_head, instr_queue_size>>
                  /\ pc' = StageAfter(pc)
                  /\ UNCHANGED <<reservINT, doneCount, counted>>
             ELSE IF USES_INT_FU(op)
             THEN LET i == FirstFree(reservINT, RESERV_INT_SIZE) IN
                  /\ IF i # -1
                     THEN /\ reservINT' = [reservINT EXCEPT ![i] = head_instr]
                          /\ Admit(head_instr)
                     ELSE UNCHANGED <<reservINT, table, map_table, ifq_head, instr_queue_size>>
                  /\ pc' = StageAfter(pc)
                  /\ UNCHANGED <<reservFP, doneCount, counted>>
             ELSE /\ pc' = "abort"
                  /\ UNCHANGED <<table, map_table, reservINT, reservFP, ifq_head,
                                 instr_queue_size, doneCount, counted>>
     ELSE /\ pc' = StageAfter(pc)
          /\ UNCHANGED <<table, map_table, reservINT, reservFP, ifq_head,
                         instr_queue_size, doneCount, counted>>
  /\ UNCHANGED <<sim_num_insn, instr_queue, ifq_tail, fuINT, fuFP, commonDataBus,
                 fetch_index, cycle, maxReq, iterations>>

(* ---------------- fetch, fetch_To_dispatch -------------------------------- *)
\* the loop of fetch leaving at the first record it reads, trap or not
FetchStop_NoSkip(tbl, idx) == idx

\* lines 373-379: the index the do-while loop stops at when it starts at idx:
\* the first one at or after idx that is no trap (Len(tbl) + 1 if tbl has none)
RECURSIVE FetchStop(_, _)
FetchStop(tbl, idx) ==
  IF idx > Len(tbl) THEN idx
  ELSE IF IS_TRAP(tbl[idx].op) THEN FetchStop(tbl, idx + 1)
  ELSE idx

\* the records one call of fetch finds past the end of the trace: nothing
\* fixes them, so each read finds a record of any class; the loop reads on
\* over traps and stops at the first record that is none.  The record found
\* at position k is taken to carry index k.
Beyond ==
  { Rep(t, n) \o <<u>> : n \in 0..(MaxOOB - 1),
                         t \in { j \in JunkTemplates : IS_TRAP(j.op) },
                         u \in { j \in JunkTemplates : ~IS_TRAP(j.op) } }

\* the fetch test without the test for a full queue
CanFetch_NoFullTest == fetch_index < sim_num_insn

\* line 394
CanFetch == instr_queue_size < INSTR_QUEUE_SIZE /\ fetch_index < sim_num_insn

\* lines 374-381 and 396-398, the loop having stopped at index stop of tbl
Enqueue(tbl, stop) ==
  /\ fetch_index' = stop
  /\ maxReq' = IF stop > maxReq THEN stop ELSE maxReq
  /\ doneCount' = doneCount + (stop - (fetch_index + 1))
  /\ counted' = [k \in 1..Len(tbl) |->
                   IF k > fetch_index /\ k < stop THEN 1
                   ELSE IF k <= Len(counted) THEN counted[k] ELSE 0]
  /\ instr_queue' = [instr_queue EXCEPT ![ifq_tail] = stop]
  /\ table' = [tbl EXCEPT ![stop].tom_dispatch_cycle = cycle]
  /\ ifq_tail' = (ifq_tail + 1) % INSTR_QUEUE_SIZE
  /\ instr_queue_size' = instr_queue_size + 1

fetch_To_dispatch ==
  /\ pc = "fetch"
  /\ pc' = StageAfter(pc)
  /\ IF CanFetch
     THEN IF FetchStop(table, fetch_index + 1) <= Len(table)
          THEN Enqueue(table, FetchStop(table, fetch_index + 1))
          ELSE \E ext \in Beyond :
                 Enqueue(table \o MkTable(ext, Len(table)), Len(table) + Len(ext))
     ELSE UNCHANGED <<fetch_index, maxReq, doneCount, counted, instr_queue, table,
                      ifq_tail, instr_queue_size>>
  /\ UNCHANGED <<sim_num_insn, ifq_head, reservINT, reservFP, fuINT, fuFP,
                 commonDataBus, map_table, cycle, iterations>>

(* ---------------- runTomasulo: the end of a loop iteration ---------------- *)
\* line 123
is_simulation_done == doneCount = sim_num_insn

\* lines 452-455; at "done" the function returns cycle (line 458)
EndCycle ==
  /\ pc = "check"
  /\ cycle < MaxCycle
  /\ cycle' = cycle + 1
  /\ iterations' = iterations + 1
  /\ pc' = IF is_simulation_done THEN "done" ELSE "retire"
  /\ UNCHANGED <<table, sim_num_insn, doneCount, instr_queue, instr_queue_size, ifq_head,
                 ifq_tail, reservINT, reservFP, fuINT, fuFP, commonDataBus, map_table,
                 fetch_index, counted, maxReq>>

Next ==
  \/ CDB_To_retire
  \/ execute_To_CDB
  \/ issue_To_execute
  \/ dispatch_To_issue
  \/ fetch_To_dispatch
  \/ EndCycle

Spec == Init /\ [][Next]_vars

\* the loop runs on as long as it has not returned or aborted
FairSpec == Spec /\ WF_vars(Next)

(* ---------------- where an instruction is -------------------------------- *)
Handles == 1..Len(table)

\* the queue's entries are the instr_queue_size slots from ifq_head on
QueueSlots == { (ifq_head + k) % INSTR_QUEUE_SIZE : k \in 0..(instr_queue_size - 1) }
InQueue(x) == \E q \in QueueSlots : instr_queue[q] = x
InStation(x) == InRS(reservINT, reservFP, x)
InUnit(x) ==
  \/ \E i \in 0..(FU_INT_SIZE - 1) : fuINT[i] = x
  \/ \E i \in 0..(FU_FP_SIZE - 1) : fuFP[i] = x
OnBus(x) == commonDataBus = x

QueueEmpty == instr_queue_size = 0
StationsEmpty ==
  /\ \A i \in 0..(RESERV_INT_SIZE - 1) : reservINT[i] = NULL
  /\ \A i \in 0..(RESERV_FP_SIZE - 1) : reservFP[i] = NULL
UnitsEmpty ==
  /\ \A i \in 0..(FU_INT_SIZE - 1) : fuINT[i] = NULL
  /\ \A i \in 0..(FU_FP_SIZE - 1) : fuFP[i] = NULL

\* a well-formed trace: every operation is of a class the pipeline knows
WellFormed == \A k \in 1..sim_num_insn : table[k].op # "none"

(* ---------------- C1 ------------------------------------------------------ *)
\* C1: for a well-formed trace the cycle loop does not loop forever.  doneCount
\* is never decreased and the loop exits only at a test that finds it equal to
\* sim_num_insn, so the loop can still exit only while no test finds doneCount
\* above sim_num_insn: at every loop test doneCount <= sim_num_insn.
C1_LoopCanStillExit ==
  (WellFormed /\ pc = "check") => doneCount <= sim_num_insn

(* ---------------- C2 ------------------------------------------------------ *)
\* C2: the loop never exits early: doneCount never exceeds sim_num_insn, no
\* instruction is counted twice, and when the loop has exited the queue, the
\* stations, the units and the bus are empty.
C2_NeverExitsEarly ==
  /\ doneCount <= sim_num_insn
  /\ \A x \in DOMAIN counted : counted[x] <= 1
  /\ pc = "done" => QueueEmpty /\ StationsEmpty /\ UnitsEmpty /\ commonDataBus = NULL

(* ---------------- C4 ------------------------------------------------------ *)
\* C4: the value runTomasulo returns (cycle, once the loop has exited) is the
\* number of loop iterations executed.
C4_ReturnsCyclesElapsed == pc = "done" => cycle = iterations

(* ---------------- C9 ------------------------------------------------------ *)
\* C9: no index passed to get_instr is beyond the end of the trace.
C9_FetchWithinTrace == maxReq <= sim_num_insn

(* ---------------- C3 ------------------------------------------------------ *)
\* a computation or a load: an instruction that broadcasts a result
Producer(x) == (USES_INT_FU(table[x].op) /\ ~IS_STORE(table[x].op)) \/ USES_FP_FU(table[x].op)
Writes(x, r) == r # DNA /\ (table[x].r_out[0] = r \/ table[x].r_out[1] = r)
OlderWriters(c, r) == { p \in 1..(c - 1) : Producer(p) /\ Writes(p, r) }
LastWriter(c, r) == CHOOSE p \in OlderWriters(c, r) : \A q \in OlderWriters(c, r) : q <= p

\* c has been admitted to a station and p had not retired by then: p has not
\* broadcast at all, or did so no earlier than the cycle of c's admission
OutstandingAtAdmission(p, c) ==
  /\ table[c].tom_issue_cycle # 0
  /\ table[p].tom_cdb_cycle = 0 \/ table[p].tom_cdb_cycle >= table[c].tom_issue_cycle

C3_Ordered ==
  \A c \in Handles : \A j \in 0..2 :
    LET r == table[c].r_in[j] IN
    (r # DNA /\ OlderWriters(c, r) # {} /\ OutstandingAtAdmission(LastWriter(c, r), c)) =>
      LET p == LastWriter(c, r) IN
      /\ table[c].tom_execute_cycle # 0 =>
           /\ table[p].tom_cdb_cycle # 0
           /\ table[c].tom_execute_cycle > table[p].tom_cdb_cycle
           /\ table[c].tom_execute_cycle # table[p].tom_execute_cycle
      /\ (table[p].tom_cdb_cycle = 0 \/ OnBus(p)) => table[c].Q[j] = p

C3_ClearedAtRetire ==
  \A c \in Handles : \A j \in 0..2 :
    (table[c].Q[j] # NULL /\ table'[c].Q[j] = NULL) =>
      /\ pc = "retire"
      /\ table[table[c].Q[j]].tom_cdb_cycle # 0
      /\ cycle = table[table[c].Q[j]].tom_cdb_cycle + 1

\* C3: an instruction that reads a register whose latest older producer was
\* outstanding when it was admitted awaits that producer until the retire step
\* of the cycle after the producer's broadcast, and starts executing only in a
\* cycle after that broadcast, never in the producer's own start cycle.
C3_NoStartBeforeOperands == [][C3_ClearedAtRetire /\ C3_Ordered']_vars

\* a consumer that waited for its producer has started executing
C3_Witness ==
  \E c \in Handles : \E j \in 0..2 :
    LET r == table[c].r_in[j] IN
    /\ r # DNA /\ OlderWriters(c, r) # {}
    /\ OutstandingAtAdmission(LastWriter(c, r), c)
    /\ table[c].tom_execute_cycle = table[LastWriter(c, r)].tom_cdb_cycle + 1
    /\ table[c].tom_issue_cycle < table[LastWriter(c, r)].tom_cdb_cycle

(* ---------------- C5 ------------------------------------------------------ *)
UnitOccupants ==
  ({ fuINT[i] : i \in 0..(FU_INT_SIZE - 1) } \cup { fuFP[i] : i \in 0..(FU_FP_SIZE - 1) })
    \ {NULL}
LatencyOf(x) == IF USES_FP_FU(table[x].op) THEN FU_FP_LATENCY ELSE FU_INT_LATENCY
\* in a unit of either bank, no store, latency elapsed, not yet broadcast
Contenders ==
  { f \in UnitOccupants : /\ ~IS_STORE(table[f].op)
                          /\ cycle >= table[f].tom_execute_cycle + LatencyOf(f) }

C5_LowestIndexWins ==
  pc = "cdb" =>
    IF Contenders = {} THEN commonDataBus' = NULL
    ELSE /\ commonDataBus' \in Contenders
         /\ \A f \in Contenders : table[commonDataBus'].index <= table[f].index

C5_OneBroadcastPerCycle ==
  \A x, y \in Handles :
    (x # y /\ table[x].tom_cdb_cycle # 0) => table[x].tom_cdb_cycle # table[y].tom_cdb_cycle

\* C5: no two instructions share a broadcast cycle, and the instruction that
\* execute_To_CDB puts on the bus is the lowest-index one among the non-store
\* instructions of both unit banks whose latency has elapsed.
C5_BusArbitration == [][C5_LowestIndexWins /\ C5_OneBroadcastPerCycle']_vars

\* execute_To_CDB has just posted a winner while an instruction of the other
\* bank, finished as well, stays behind in its unit
C5_Witness ==
  /\ pc = "issue"
  /\ commonDataBus # NULL
  /\ \E f \in Contenders : /\ table[f].index > table[commonDataBus].index
                           /\ USES_FP_FU(table[f].op) # USES_FP_FU(table[commonDataBus].op)

(* ---------------- C6 ------------------------------------------------------ *)
Occupants(arr, n) == { arr[i] : i \in 0..(n - 1) } \ {NULL}
Residents == Occupants(reservINT, RESERV_INT_SIZE) \cup Occupants(reservFP, RESERV_FP_SIZE)
\* the instructions that are in the queue, a station, a unit or on the bus
Present ==
  ({ instr_queue[q] : q \in QueueSlots } \cup Residents \cup {commonDataBus}
     \cup Occupants(fuINT, FU_INT_SIZE) \cup Occupants(fuFP, FU_FP_SIZE)) \ {NULL}

Places(x) ==
  (IF InQueue(x) THEN {"queue"} ELSE {}) \cup (IF InStation(x) THEN {"station"} ELSE {})
    \cup (IF InUnit(x) THEN {"unit"} ELSE {}) \cup (IF OnBus(x) THEN {"bus"} ELSE {})

\* C6 as stated: an instruction is in at most one of the queue, a reservation
\* station, a functional unit and the bus.
C6_AtMostOnePlace == \A x \in Present : Cardinality(Places(x)) <= 1

SlotsOf(arr, n, x) == { i \in 0..(n - 1) : arr[i] = x }

\* C6 as amended: an instruction is in at most one of the queue, a reservation
\* station and the bus, and in at most one slot of it; an instruction in a
\* functional unit holds one unit slot and, all the while, its reservation
\* station of the same bank.
C6_OnePlaceUnitWithinStation ==
  \A x \in Present :
    /\ Cardinality(Places(x) \ {"unit"}) <= 1
    /\ Cardinality({ q \in QueueSlots : instr_queue[q] = x }) <= 1
    /\ Cardinality(SlotsOf(reservINT, RESERV_INT_SIZE, x)
                     \cup { RESERV_INT_SIZE + i : i \in SlotsOf(reservFP, RESERV_FP_SIZE, x) }) <= 1
    /\ Cardinality(SlotsOf(fuINT, FU_INT_SIZE, x)
                     \cup { FU_INT_SIZE + i : i \in SlotsOf(fuFP, FU_FP_SIZE, x) }) <= 1
    /\ SlotsOf(fuINT, FU_INT_SIZE, x) # {} => SlotsOf(reservINT, RESERV_INT_SIZE, x) # {}
    /\ SlotsOf(fuFP, FU_FP_SIZE, x) # {} => SlotsOf(reservFP, RESERV_FP_SIZE, x) # {}

\* at once: one instruction queued, one waiting in a station, one executing
\* and one on the bus
C6_Witness ==
  /\ \E x \in Handles : InQueue(x)
  /\ \E x \in Handles : InStation(x) /\ ~InUnit(x)
  /\ \E x \in Handles : InUnit(x) /\ InStation(x)
  /\ commonDataBus # NULL

(* ---------------- C7 ------------------------------------------------------ *)
InFlight(x) == InQueue(x) \/ InStation(x) \/ InUnit(x) \/ OnBus(x)
Latest(S) == CHOOSE x \in S : \A y \in S : table[y].index <= table[x].index

\* C7 as stated: map_table[r] is the most recently dispatched in-flight
\* instruction that writes r, NULL if no in-flight instruction writes r.
C7_MapNamesLatestInFlight ==
  \A r \in Regs :
    LET W == { x \in Handles : InFlight(x) /\ Writes(x, r) } IN
    map_table[r] = IF W = {} THEN NULL ELSE Latest(W)

\* the instructions admitted to a station so far that write r
AdmittedWriters(r) == { x \in Handles : table[x].tom_issue_cycle # 0 /\ Writes(x, r) }

\* C7 as amended: map_table[r] is the most recently admitted instruction that
\* writes r for as long as that instruction is in a station or on the bus; it
\* is NULL when no writer of r has been admitted yet or the most recently
\* admitted one has retired, whatever older or queued writers are in flight.
C7_MapNamesLatestAdmitted ==
  \A r \in Regs :
    LET W == AdmittedWriters(r) IN
    map_table[r] = IF W # {} /\ (InStation(Latest(W)) \/ OnBus(Latest(W)))
                   THEN Latest(W) ELSE NULL

\* the latest admitted writer of a register has retired and the map entry is
\* empty, while an older writer of that register is still in a station
C7_Witness ==
  \E r \in Regs \ {DNA} :
    /\ map_table[r] = NULL
    /\ \E x \in AdmittedWriters(r) : InStation(x)

(* ---------------- C8 ------------------------------------------------------ *)
Retired(x) == counted[x] > 0

\* C8: what the producer map and the await-slots of the station residents name
\* has not retired: it is in a station or on the bus, and an awaited producer
\* is older than the instruction awaiting it.
C8_NoDanglingProducer ==
  /\ \A r \in Regs :
       map_table[r] # NULL =>
         /\ ~Retired(map_table[r])
         /\ InStation(map_table[r]) \/ OnBus(map_table[r])
  /\ \A c \in Residents : \A j \in 0..2 :
       table[c].Q[j] # NULL =>
         /\ ~Retired(table[c].Q[j])
         /\ InStation(table[c].Q[j]) \/ OnBus(table[c].Q[j])
         /\ table[table[c].Q[j]].index < table[c].index

\* a producer has retired while another one is still named by the map and
\* awaited by a station resident
C8_Witness ==
  /\ \E x \in Handles : Retired(x) /\ Producer(x)
  /\ \E r \in Regs : map_table[r] # NULL
  /\ \E c \in Handles : \E j \in 0..2 : InStation(c) /\ table[c].Q[j] # NULL

(* ---------------- C10 ----------------------------------------------------- *)
\* removed from its station and unit: a store when counted, others at broadcast
Freed(x) == IF IS_STORE(table[x].op) THEN Retired(x) ELSE table[x].tom_cdb_cycle # 0
AdmittedINT == { x \in Handles : USES_INT_FU(table[x].op) /\ table[x].tom_issue_cycle # 0 /\ ~Freed(x) }
AdmittedFP == { x \in Handles : USES_FP_FU(table[x].op) /\ table[x].tom_issue_cycle # 0 /\ ~Freed(x) }
StartedINT == { x \in AdmittedINT : table[x].tom_execute_cycle # 0 }
StartedFP == { x \in AdmittedFP : table[x].tom_execute_cycle # 0 }
\* fetched into the queue and not yet taken from its head
Waiting ==
  { x \in Handles : /\ table[x].tom_dispatch_cycle # 0
                    /\ table[x].tom_issue_cycle = 0
                    /\ ~(IS_CTRL(table[x].op) /\ Retired(x)) }

\* C10: the instructions admitted to a bank and not yet freed are at most 4
\* (integer) and 2 (floating point) and are the ones its stations hold; those
\* of them that have started are at most 2 and 1 and are the ones its units
\* hold; the queue size is within 0..10, is the distance from head to tail,
\* and the queue's entries are the instructions waiting for dispatch.
C10_WithinCapacity ==
  /\ Cardinality(AdmittedINT) <= RESERV_INT_SIZE
  /\ Cardinality(AdmittedFP) <= RESERV_FP_SIZE
  /\ Cardinality(StartedINT) <= FU_INT_SIZE
  /\ Cardinality(StartedFP) <= FU_FP_SIZE
  /\ Occupants(reservINT, RESERV_INT_SIZE) = AdmittedINT
  /\ Occupants(reservFP, RESERV_FP_SIZE) = AdmittedFP
  /\ Occupants(fuINT, FU_INT_SIZE) = StartedINT
  /\ Occupants(fuFP, FU_FP_SIZE) = StartedFP
  /\ instr_queue_size \in 0..INSTR_QUEUE_SIZE
  /\ (ifq_head + instr_queue_size) % INSTR_QUEUE_SIZE = ifq_tail
  /\ { instr_queue[q] : q \in QueueSlots } = Waiting
  /\ Cardinality(Waiting) = instr_queue_size

\* the queue is full behind a head that finds every floating-point station
\* taken, and the tail has wrapped around
C10_Witness ==
  /\ instr_queue_size = INSTR_QUEUE_SIZE
  /\ Cardinality(AdmittedFP) = RESERV_FP_SIZE
  /\ Cardinality(StartedFP) = FU_FP_SIZE
  /\ ifq_tail = ifq_head /\ ifq_head # 0
  /\ fetch_index < sim_num_insn

(* ---------------- C11 ----------------------------------------------------- *)
\* execute_To_CDB of cycle c has run
PastCdbStep(c) ==
  cycle > c \/ (cycle = c /\ pc \in {"issue", "dispatch", "fetch", "check", "abort"})

StartedStores ==
  { x \in Handles : IS_STORE(table[x].op) /\ table[x].tom_execute_cycle # 0 }

\* C11: the bus never holds a store and no store records a broadcast cycle; a
\* store that has started stays in its unit and station, uncounted, until
\* execute_To_CDB of cycle execute start + 4, and from that step on it is
\* counted once and out of both.
C11_StoreBypassesBus ==
  /\ commonDataBus # NULL => ~IS_STORE(table[commonDataBus].op)
  /\ \A x \in StartedStores :
       /\ table[x].tom_cdb_cycle = 0
       /\ IF PastCdbStep(table[x].tom_execute_cycle + FU_INT_LATENCY)
          THEN counted[x] = 1 /\ ~InUnit(x) /\ ~InStation(x)
          ELSE counted[x] = 0 /\ InUnit(x) /\ InStation(x)

\* a store has been counted in the very step that put another instruction,
\* finished in the other integer unit, on the bus
C11_Witness ==
  /\ pc = "issue"
  /\ commonDataBus # NULL /\ USES_INT_FU(table[commonDataBus].op)
  /\ \E x \in StartedStores :
       /\ table[x].tom_execute_cycle + FU_INT_LATENCY = cycle
       /\ counted[x] = 1

(* ---------------- C12 ----------------------------------------------------- *)
Traps == { x \in Handles : IS_TRAP(table[x].op) }

\* C12: a trap is in no queue slot, station, unit or on the bus, records no
\* stage cycle, and is counted exactly once, by the fetch that reads past it:
\* its count is 1 when fetch_index has reached it and 0 before.
C12_TrapsSkippedAtFetch ==
  \A x \in Traps :
    /\ ~InQueue(x) /\ ~InStation(x) /\ ~InUnit(x) /\ ~OnBus(x)
    /\ table[x].tom_dispatch_cycle = 0 /\ table[x].tom_issue_cycle = 0
    /\ table[x].tom_execute_cycle = 0 /\ table[x].tom_cdb_cycle = 0
    /\ counted[x] = IF x <= fetch_index THEN 1 ELSE 0

\* a fetch has just read over a trap and put the record after it in the queue
C12_Witness ==
  /\ pc = "check"
  /\ fetch_index > 1
  /\ fetch_index - 1 \in Traps
  /\ counted[fetch_index - 1] = 1
  /\ InQueue(fetch_index)
  /\ table[fetch_index].tom_dispatch_cycle = cycle

(* ---------------- C13 ----------------------------------------------------- *)
\* an operation of none of the classes dispatch_To_issue tells apart
Unrecognized(op) ==
  ~(IS_CTRL(op) \/ IS_FCOMP(op) \/ IS_ICOMP(op) \/ IS_LOAD(op) \/ IS_STORE(op))

HeadUnrecognized ==
  /\ pc = "dispatch"
  /\ instr_queue_size > 0
  /\ Unrecognized(table[instr_queue[ifq_head]].op)

\* C13: dispatch_To_issue finding a head of no known class aborts the run and
\* changes nothing else; no step is taken from the aborted state; and the
\* aborted state is entered by no other step, whatever stations, units or
\* the bus are taken.
C13_Step ==
  /\ pc # "abort"
  /\ HeadUnrecognized =>
       /\ pc' = "abort"
       /\ UNCHANGED <<table, sim_num_insn, doneCount, instr_queue, instr_queue_size,
                      ifq_head, ifq_tail, reservINT, reservFP, fuINT, fuFP,
                      commonDataBus, map_table, fetch_index, cycle, counted, maxReq,
                      iterations>>
  /\ pc' = "abort" => HeadUnrecognized

C13_AbortOnlyOnUnknownClass == [][C13_Step]_vars

\* the run has aborted with an admitted instruction still in its station
C13_Witness ==
  /\ pc = "abort"
  /\ instr_queue_size > 0
  /\ Unrecognized(table[instr_queue[ifq_head]].op)
  /\ ~StationsEmpty

(* ---------------- C14 ----------------------------------------------------- *)
\* CDB_To_retire of cycle c has run
PastRetireStep(c) ==
  cycle > c \/ (cycle = c /\ pc \in {"cdb", "issue", "dispatch", "fetch", "check", "abort"})

Broadcast == { x \in Handles : table[x].tom_cdb_cycle # 0 }

\* C14: an instruction put on the bus in cycle c is retired by the retire
\* step of cycle c + 1 and by no other: until that step it is on the bus and
\* uncounted, from it on it is counted once, off the bus, and named by no map
\* entry and by no await-slot of a resident.
C14_RetireStepOfNextCycle ==
  \A x \in Broadcast :
    IF PastRetireStep(table[x].tom_cdb_cycle + 1)
    THEN /\ counted[x] = 1
         /\ ~OnBus(x)
         /\ \A r \in Regs : map_table[r] # x
         /\ \A y \in Residents : \A j \in 0..2 : table[y].Q[j] # x
    ELSE /\ OnBus(x)
         /\ counted[x] = 0

\* the retire step has just counted x, broadcast the cycle before, and a
\* younger resident that reads what x writes waits for nothing any more
C14_Witness ==
  /\ pc = "cdb"
  /\ \E x \in Broadcast :
       /\ table[x].tom_cdb_cycle + 1 = cycle
       /\ counted[x] = 1
       /\ \E y \in Residents :
            /\ y > x
            /\ table[y].tom_issue_cycle < cycle
            /\ table[y].tom_execute_cycle = 0
            /\ \E j \in 1..2 : table[y].r_in[j] # DNA /\ Writes(x, table[y].r_in[j])

(* ---------------- C15 ----------------------------------------------------- *)
\* the last cycle whose execute_To_CDB has run
LastCdbCycle == IF PastCdbStep(cycle) THEN cycle ELSE cycle - 1

\* some instruction of lower index than x went on the bus in cycle k
LostArbitration(x, k) ==
  \E y \in Broadcast : table[y].tom_cdb_cycle = k /\ table[y].index < table[x].index

\* started instructions that produce a result for the bus
Producers ==
  { x \in Handles : table[x].tom_execute_cycle # 0 /\ ~IS_STORE(table[x].op) }

\* C15: an instruction is broadcast no earlier than execute start + latency
\* of its class (4 integer, 9 floating-point), hence no earlier than issue
\* cycle + 4, and in every cycle from execute start + latency up to its
\* broadcast (or up to now, if it still waits) a lower-index instruction went
\* on the bus instead.
C15_LatencyIsMinimumWait ==
  \A x \in Producers :
    LET ready == table[x].tom_execute_cycle + LatencyOf(x)
        last == IF table[x].tom_cdb_cycle # 0 THEN table[x].tom_cdb_cycle - 1
                ELSE LastCdbCycle
    IN /\ table[x].tom_cdb_cycle # 0 =>
            /\ table[x].tom_cdb_cycle >= ready
            /\ table[x].tom_cdb_cycle >= table[x].tom_issue_cycle + FU_INT_LATENCY
       /\ \A k \in ready..last : LostArbitration(x, k)

\* an instruction went on the bus later than execute start + latency
C15_Witness ==
  \E x \in Broadcast : table[x].tom_cdb_cycle > table[x].tom_execute_cycle + LatencyOf(x)

(* ---------------- C16 ----------------------------------------------------- *)
ResidentsINT == Occupants(reservINT, RESERV_INT_SIZE)

\* the integer residents the step starts
StartedNowINT ==
  { x \in ResidentsINT : table[x].tom_execute_cycle = 0 /\ table'[x].tom_execute_cycle # 0 }

\* the integer residents still ready and not started after the step
LeftReadyINT == { y \in ResidentsINT : Ready(table', y) }

\* C16: issue_To_execute starts ready integer entries lowest index first:
\* what it starts was ready and starts in this cycle; an entry left ready
\* and un-started has a higher index than every entry started in the step,
\* is left only when no integer unit is free any more, and is itself
\* unchanged; the stations keep their residents.
C16_Step ==
  pc = "issue" =>
    /\ \A x \in StartedNowINT : Ready(table, x) /\ table'[x].tom_execute_cycle = cycle
    /\ \A y \in LeftReadyINT :
         /\ \A x \in StartedNowINT : table[x].index < table[y].index
         /\ \A i \in 0..(FU_INT_SIZE - 1) : fuINT'[i] # NULL
         /\ table'[y] = table[y]
    /\ reservINT' = reservINT

C16_LowestIndexFirst == [][C16_Step]_vars

\* the step has started an integer entry and left a ready one of higher
\* index waiting in its station
C16_Witness ==
  /\ pc = "dispatch"
  /\ \E x \in Occupants(reservINT, RESERV_INT_SIZE) :
     \E y \in Occupants(reservINT, RESERV_INT_SIZE) :
       /\ table[x].tom_execute_cycle = cycle
       /\ Ready(table, y)
       /\ table[x].index < table[y].index

(* ---------------- C17 ----------------------------------------------------- *)
\* x has finished its latency in a unit
Finished(x) == cycle >= table[x].tom_execute_cycle + LatencyOf(x)

\* the occupant x of a unit slot leaves it only in execute_To_CDB, its
\* latency over, the slot left empty, as a store that is counted or as the
\* instruction that goes on the bus
LeavesUnit(x) ==
  /\ pc = "cdb"
  /\ Finished(x)
  /\ IF IS_STORE(table[x].op)
     THEN counted'[x] = counted[x] + 1 /\ commonDataBus' # x
     ELSE commonDataBus' = x /\ table'[x].tom_cdb_cycle = cycle

\* the units and stations hold x where they held it, and its record is the same
HeldInPlace(x) ==
  /\ \A i \in 0..(FU_INT_SIZE - 1) : fuINT[i] = x => fuINT'[i] = x
  /\ \A i \in 0..(FU_FP_SIZE - 1) : fuFP[i] = x => fuFP'[i] = x
  /\ \A i \in 0..(RESERV_INT_SIZE - 1) : reservINT[i] = x => reservINT'[i] = x
  /\ \A i \in 0..(RESERV_FP_SIZE - 1) : reservFP[i] = x => reservFP'[i] = x
  /\ table'[x] = table[x]

\* C17: a unit slot changes its occupant only by being emptied in
\* execute_To_CDB, for a store that completes or for the occupant that wins
\* the bus, so an occupied slot starts no new instruction; an occupant that
\* has finished its latency and does not win keeps its unit slot and its
\* station slot, unchanged.
C17_Step ==
  /\ \A i \in 0..(FU_INT_SIZE - 1) :
       (fuINT[i] # NULL /\ fuINT'[i] # fuINT[i]) => fuINT'[i] = NULL /\ LeavesUnit(fuINT[i])
  /\ \A i \in 0..(FU_FP_SIZE - 1) :
       (fuFP[i] # NULL /\ fuFP'[i] # fuFP[i]) => fuFP'[i] = NULL /\ LeavesUnit(fuFP[i])
  /\ \A x \in UnitOccupants :
       (pc = "cdb" /\ Finished(x) /\ ~IS_STORE(table[x].op) /\ commonDataBus' # x)
         => HeldInPlace(x)
  /\ \A x \in UnitOccupants : pc # "cdb" => HeldInPlace(x)

C17_LoserHoldsItsUnit == [][C17_Step]_vars

\* an instruction that finished its latency and lost this cycle's arbitration
\* is still in its unit while a ready entry of its bank waits in a station
C17_Witness ==
  /\ pc = "dispatch"
  /\ \E x \in UnitOccupants :
       /\ ~IS_STORE(table[x].op)
       /\ Finished(x)
       /\ table[x].tom_cdb_cycle = 0
       /\ \E y \in Residents :
            /\ Ready(table, y)
            /\ USES_INT_FU(table[y].op) = USES_INT_FU(table[x].op)

(* ---------------- C18 ----------------------------------------------------- *)
\* x has left the queue: admitted to a station, or a control instruction counted
RemovedIn(tbl, cnt, x) ==
  tbl[x].tom_issue_cycle # 0 \/ (IS_CTRL(tbl[x].op) /\ cnt[x] > 0)

NonTraps == Handles \ Traps

\* the instructions the step takes out of the queue
RemovedNow ==
  { x \in NonTraps : ~RemovedIn(table, counted, x) /\ RemovedIn(table', counted', x) }

\* the head is of a class whose stations are all taken
HeadBlocked ==
  /\ instr_queue_size > 0
  /\ LET op == table[instr_queue[ifq_head]].op
     IN \/ USES_FP_FU(op) /\ \A i \in 0..(RESERV_FP_SIZE - 1) : reservFP[i] # NULL
        \/ USES_INT_FU(op) /\ \A i \in 0..(RESERV_INT_SIZE - 1) : reservINT[i] # NULL

\* C18: instructions leave the queue in program order, at most one per
\* cycle: only dispatch_To_issue takes an instruction out, at most one, the
\* head, and every non-trap instruction of lower index has left in an
\* earlier step; the head pointer moves with it by one; a head whose
\* stations are all taken stays, and the queue head and every younger
\* instruction with it.
C18_Step ==
  /\ Cardinality(RemovedNow) <= 1
  /\ \A x \in RemovedNow :
       /\ pc = "dispatch"
       /\ instr_queue_size > 0 /\ x = instr_queue[ifq_head]
       /\ \A a \in NonTraps : a < x => RemovedIn(table, counted, a)
       /\ ifq_head' = (ifq_head + 1) % INSTR_QUEUE_SIZE
       /\ instr_queue_size' = instr_queue_size - 1
  /\ RemovedNow = {} => ifq_head' = ifq_head /\ instr_queue_size' >= instr_queue_size
  /\ (pc = "dispatch" /\ HeadBlocked) =>
       /\ RemovedNow = {}
       /\ UNCHANGED <<ifq_head, instr_queue_size, instr_queue, reservINT, reservFP, table>>

C18_InOrderOnePerCycle == [][C18_Step]_vars

\* the head found both floating-point stations taken in this cycle's
\* dispatch_To_issue and is still the head, a younger instruction behind it
C18_Witness ==
  /\ pc = "fetch"
  /\ instr_queue_size > 1
  /\ HeadBlocked
  /\ USES_FP_FU(table[instr_queue[ifq_head]].op)
  /\ table[instr_queue[ifq_head]].tom_dispatch_cycle < cycle
  /\ \A i \in 0..(RESERV_FP_SIZE - 1) : table[reservFP[i]].tom_issue_cycle < cycle

(* ---------------- C19 ----------------------------------------------------- *)
\* the scan of the floating-point stations with the integer tie-break
RECURSIVE SelectFPByIndex(_, _, _, _)
SelectFPByIndex(tbl, rs, j, best) ==
  IF j = RESERV_FP_SIZE THEN best
  ELSE IF Ready(tbl, rs[j])
       THEN IF best = -1 THEN SelectFPByIndex(tbl, rs, j + 1, j)
            ELSE IF tbl[rs[j]].index < tbl[rs[best]].index
                 THEN SelectFPByIndex(tbl, rs, j + 1, j)
            ELSE SelectFPByIndex(tbl, rs, j + 1, best)
       ELSE SelectFPByIndex(tbl, rs, j + 1, best)

\* C19: the floating-point station the scan by lowest dispatch cycle chooses
\* is the one a scan by lowest index would choose, and the dispatch cycles
\* of the instructions in queue, stations and units are distinct and
\* strictly increasing in index.
C19_TieBreaksCoincide ==
  /\ SelectFP(table, reservFP, 0, -1) = SelectFPByIndex(table, reservFP, 0, -1)
  /\ \A x \in Present : \A y \in Present :
       table[x].index < table[y].index
         => table[x].tom_dispatch_cycle < table[y].tom_dispatch_cycle

\* issue_To_execute had two ready floating-point entries to choose from: it
\* has started one and the other, of higher index, still waits
C19_Witness ==
  /\ pc = "dispatch"
  /\ \E x \in Occupants(reservFP, RESERV_FP_SIZE) :
     \E y \in Occupants(reservFP, RESERV_FP_SIZE) :
       /\ table[x].tom_execute_cycle = cycle
       /\ Ready(table, y)
       /\ table[x].index < table[y].index
       /\ table[x].tom_dispatch_cycle < table[y].tom_dispatch_cycle

(* ---------------- C20 ----------------------------------------------------- *)
\* C20: no instruction passes two stages in one cycle: the cycles recorded
\* for an instruction are strictly increasing from dispatch to issue to
\* execute start to broadcast, each stage reached only after the one before
\* it; so an instruction that starts in a unit in cycle c was admitted to its
\* station before c, and one admitted to a station in c was fetched before c.
C20_OneStagePerCycle ==
  \A x \in Handles :
    /\ table[x].tom_issue_cycle # 0 =>
         /\ table[x].tom_dispatch_cycle # 0
         /\ table[x].tom_dispatch_cycle < table[x].tom_issue_cycle
    /\ table[x].tom_execute_cycle # 0 =>
         /\ table[x].tom_issue_cycle # 0
         /\ table[x].tom_issue_cycle < table[x].tom_execute_cycle
    /\ table[x].tom_cdb_cycle # 0 =>
         /\ table[x].tom_execute_cycle # 0
         /\ table[x].tom_execute_cycle < table[x].tom_cdb_cycle

\* in one cycle the floating-point unit and a floating-point station freed by
\* execute_To_CDB have both been refilled: x went on the bus, y, admitted
\* earlier, started in the unit, and z, fetched earlier, took the station
C20_Witness ==
  /\ pc = "fetch"
  /\ \E x \in Broadcast :
       /\ USES_FP_FU(table[x].op)
       /\ table[x].tom_cdb_cycle = cycle
       /\ fuFP[0] # NULL
       /\ table[fuFP[0]].tom_execute_cycle = cycle
       /\ table[fuFP[0]].tom_issue_cycle < cycle
       /\ \E i \in 0..(RESERV_FP_SIZE - 1) :
            /\ reservFP[i] # NULL
            /\ table[reservFP[i]].tom_issue_cycle = cycle
            /\ table[reservFP[i]].tom_dispatch_cycle < cycle

====
